---- MODULE Spec2Model ----
(***************************************************************************)
(* The Task CRUD service: TaskController -> TaskService -> Repository<Task> *)
(* over one relational table.  Every HTTP request is one handler           *)
(* invocation; invocations interleave at their awaits.  Only               *)
(* TaskService.update awaits twice (update, then findOne), so it is the    *)
(* only handler with an intermediate state.                                *)
(*                                                                         *)
(* Ids are well-formed uuids, numbered 1..NumIds.  A title that was never  *)
(* given and a title stored as SQL NULL are the same value, NoTitle.       *)
(***************************************************************************)
EXTENDS Integers, FiniteSets, Bags

VARIABLES
    table,      \* the rows of the task table: a set of Task records
    seen,       \* uuids already generated or already named by some request
    inflight,   \* bag of update invocations between their two awaits
    last        \* the last completed HTTP exchange (request and response)

vars == <<table, seen, inflight, last>>

----------------------------------------------------------------------------
(* Bounds *)

NumIds == 2
MaxInflight == 1

Ids == 1..NumIds

Titles == {"t"}
Descs == {"a", "b"}
Absent == "absent"      \* a property the JSON body does not carry
NoTitle == "null"       \* the nullable title column holding no value

----------------------------------------------------------------------------
(* The entity and the request body *)

Task == [id : Ids, title : Titles \cup {NoTitle}, description : Descs]

\* A JSON body: title?, description?, and possibly one property that is
\* neither of them ("other").
Bodies ==
    [title : Titles \cup {Absent}, description : Descs \cup {Absent}, other : {Absent}]
    \cup [title : Titles \cup {Absent}, description : {"a"}, other : {"x"}]

NoBody == [title |-> Absent, description |-> Absent, other |-> Absent]

BodyFields(body) == {f \in {"title", "description", "other"} : body[f] # Absent}

\* The properties CreateTaskDto declares.
DtoFields == {"title", "description"}

\* Variant: whitelist without forbidNonWhitelisted, where undeclared
\* properties are stripped and the request goes on.
ValidationPipeStrips(body) == TRUE

\* ValidationPipe({ whitelist: true, forbidNonWhitelisted: true }): a body
\* with a property the DTO does not declare is rejected.
ValidationPipe(body) == BodyFields(body) \subseteq DtoFields

\* What reaches the handler: the body's whitelisted properties.
Whitelisted(body) == [body EXCEPT !.other = Absent]

----------------------------------------------------------------------------
(* Repository<Task> over the table *)

IdsOf(t) == {r.id : r \in t}

\* Variant: a find() that pages, returning at most one row.
RepoFindPaged(t) == IF t = {} THEN {} ELSE {CHOOSE r \in t : TRUE}

\* repository.find()
RepoFind(t) == t

\* Variant: a findOne whose where clause is dropped, returning the first row.
RepoFindOneFirst(t, id) == IF t = {} THEN {} ELSE {CHOOSE r \in t : TRUE}

\* repository.findOne({ where: { id } }): the matching rows, {} being null.
RepoFindOne(t, id) == {r \in t : r.id = id}

\* Variant: an id source that may hand out an id again.
GeneratedIdsAny(sn) == Ids

\* The uuid the database generates for a new row: one that was never
\* generated and never named by a request.

GeneratedIds(sn) == Ids \ sn

\* The row an INSERT of the body writes under a generated id.
NewRow(id, body) ==
    [id |-> id,
     title |-> IF body.title = Absent THEN NoTitle ELSE body.title,
     description |-> body.description]

\* repository.save(task) for a task without id: INSERT of the new row.
RepoSave(t, row) == t \cup {row}

\* Variant: an update that replaces the row, a column not given becoming null.
SetColumnsReplace(r, body) ==
    [id |-> r.id,
     title |-> IF body.title = Absent THEN NoTitle ELSE body.title,
     description |-> IF body.description = Absent THEN r.description
                     ELSE body.description]

\* repository.update(id, task): UPDATE ... SET <the given columns> WHERE id = id.
SetColumns(r, body) ==
    [id |-> r.id,
     title |-> IF body.title = Absent THEN r.title ELSE body.title,
     description |-> IF body.description = Absent THEN r.description
                     ELSE body.description]

\* Variant: an update that writes the changed row beside the old one.
RepoUpdateAppend(t, id, body) ==
    t \cup {SetColumns(r, body) : r \in {x \in t : x.id = id}}

\* Variant: an update that inserts the row when no row has the id.
RepoUpdateUpsert(t, id, body) ==
    IF {r \in t : r.id = id} = {} /\ body.description # Absent
    THEN t \cup {NewRow(id, body)}
    ELSE {IF r.id = id THEN SetColumns(r, body) ELSE r : r \in t}

RepoUpdate(t, id, body) ==
    {IF r.id = id THEN SetColumns(r, body) ELSE r : r \in t}

Affected(t, id) == Cardinality(RepoFindOne(t, id))

\* Variant: a delete without its where clause.
RepoDeleteAll(t, id) == {}

\* repository.delete(id): DELETE ... WHERE id = id.
RepoDelete(t, id) == {r \in t : r.id # id}

----------------------------------------------------------------------------
(* TaskService: each method with the number of repository calls it makes *)

\* findAll(): return await this.taskRepository.find()
ServiceFindAll(t) == [result |-> RepoFind(t), calls |-> 1]

\* Variant: a findOne that checks existence before it fetches.
ServiceFindOneChecked(t, id) == [result |-> RepoFindOne(t, id), calls |-> 2]

\* findOne(id): return await this.taskRepository.findOne({ where: { id } })
ServiceFindOne(t, id) == [result |-> RepoFindOne(t, id), calls |-> 1]

\* create(task): return await this.taskRepository.save(task)
ServiceCreate(t, row) == [table |-> RepoSave(t, row), result |-> {row}, calls |-> 1]

\* update(id, task), up to its first await: this.taskRepository.update(id, task)
ServiceUpdate(t, id, body) ==
    [table |-> RepoUpdate(t, id, body), affected |-> Affected(t, id), calls |-> 1]

\* update(id, task), its second await: return this.taskRepository.findOne(...)
ServiceUpdateReturn(t, id) == [result |-> RepoFindOne(t, id), calls |-> 2]

\* remove(id): await this.taskRepository.delete(id), nothing returned
ServiceRemove(t, id) ==
    [table |-> RepoDelete(t, id), affected |-> Affected(t, id), result |-> {},
     calls |-> 1]

----------------------------------------------------------------------------
(* State *)

\* An update invocation suspended between its two awaits: its arguments and
\* the UpdateResult of the first call.
Pending(id, body, affected) == [id |-> id, body |-> body, affected |-> affected]

\* A completed HTTP exchange.  id is 0 and body is NoBody where the request
\* has none; result is the set of Task records in the response ({} for
\* null and for no content); calls counts the repository calls made;
\* affected is the row count of the write the invocation made.
Exchange(op, id, body, status, result, calls, affected) ==
    [op |-> op, id |-> id, body |-> body, status |-> status,
     result |-> result, calls |-> calls, affected |-> affected]

Init ==
    /\ table = {}
    /\ seen = {}
    /\ inflight = EmptyBag
    /\ last = Exchange("none", 0, NoBody, "ok", {}, 0, 0)

----------------------------------------------------------------------------
(* TaskController: one action per handler step *)

\* GET /task
FindAll ==
    LET s == ServiceFindAll(table) IN
    /\ last' = Exchange("findAll", 0, NoBody, "ok", s.result, s.calls, 0)
    /\ UNCHANGED <<table, seen, inflight>>

\* GET /task/:id
FindOne(id) ==
    LET s == ServiceFindOne(table, id) IN
    /\ last' = Exchange("findOne", id, NoBody, "ok", s.result, s.calls, 0)
    /\ seen' = seen \cup {id}
    /\ UNCHANGED <<table, inflight>>

\* POST /task, body refused by the ValidationPipe: the handler is not called.
CreateRejected(body) ==
    /\ ~ValidationPipe(body)
    /\ last' = Exchange("create", 0, body, "rejected", {}, 0, 0)
    /\ UNCHANGED <<table, seen, inflight>>

\* POST /task without description: the INSERT violates NOT NULL, save throws.
CreateFailed(body) ==
    /\ ValidationPipe(body)
    /\ Whitelisted(body).description = Absent
    /\ last' = Exchange("create", 0, body, "error", {}, 1, 0)
    /\ UNCHANGED <<table, seen, inflight>>

\* POST /task
Create(body) ==
    /\ ValidationPipe(body)
    /\ Whitelisted(body).description # Absent
    /\ \E id \in GeneratedIds(seen) :
         LET s == ServiceCreate(table, NewRow(id, Whitelisted(body))) IN
           /\ table' = s.table
           /\ seen' = seen \cup {id}
           /\ last' = Exchange("create", 0, body, "ok", s.result, s.calls, 1)
    /\ UNCHANGED inflight

\* PUT /task/:id, body refused by the ValidationPipe.
UpdateRejected(id, body) ==
    /\ ~ValidationPipe(body)
    /\ last' = Exchange("update", id, body, "rejected", {}, 0, 0)
    /\ seen' = seen \cup {id}
    /\ UNCHANGED <<table, inflight>>

\* PUT /task/:id with no column to set: repository.update throws.
UpdateFailed(id, body) ==
    /\ ValidationPipe(body)
    /\ BodyFields(Whitelisted(body)) = {}
    /\ last' = Exchange("update", id, body, "error", {}, 1, 0)
    /\ seen' = seen \cup {id}
    /\ UNCHANGED <<table, inflight>>

\* PUT /task/:id, up to the first await.
UpdateCall(id, body) ==
    /\ BagCardinality(inflight) < MaxInflight
    /\ ValidationPipe(body)
    /\ BodyFields(Whitelisted(body)) # {}
    /\ LET s == ServiceUpdate(table, id, Whitelisted(body)) IN
         /\ table' = s.table
         /\ inflight' = inflight (+) SetToBag({Pending(id, body, s.affected)})
    /\ seen' = seen \cup {id}
    /\ UNCHANGED last

\* PUT /task/:id, from the second await to the response.
UpdateRefetch(p) ==
    /\ BagIn(p, inflight)
    /\ LET s == ServiceUpdateReturn(table, p.id) IN
         last' = Exchange("update", p.id, p.body, "ok", s.result, s.calls, p.affected)
    /\ inflight' = inflight (-) SetToBag({p})
    /\ UNCHANGED <<table, seen>>

\* DELETE /task/:id
Remove(id) ==
    LET s == ServiceRemove(table, id) IN
    /\ table' = s.table
    /\ last' = Exchange("remove", id, NoBody, "ok", s.result, s.calls, s.affected)
    /\ seen' = seen \cup {id}
    /\ UNCHANGED inflight

Next ==
    \/ FindAll
    \/ \E id \in Ids : FindOne(id)
    \/ \E body \in Bodies : CreateRejected(body)
    \/ \E body \in Bodies : CreateFailed(body)
    \/ \E body \in Bodies : Create(body)
    \/ \E id \in Ids, body \in Bodies : UpdateRejected(id, body)
    \/ \E id \in Ids, body \in Bodies : UpdateFailed(id, body)
    \/ \E id \in Ids, body \in Bodies : UpdateCall(id, body)
    \/ \E p \in BagToSet(inflight) : UpdateRefetch(p)
    \/ \E id \in Ids : Remove(id)

Spec == Init /\ [][Next]_vars

----------------------------------------------------------------------------
(* Reading a step *)

\* The step completes an exchange: the response of some request is sent.
Responded ==
    \/ last' # last
    \/ BagCardinality(inflight') < BagCardinality(inflight)

Answered(op) == Responded /\ last'.op = op

\* The step is the first await of an update; NewPending is that invocation.
Called == BagCardinality(inflight') > BagCardinality(inflight)

NewPending ==
    CHOOSE p \in BagToSet(inflight') : CopiesIn(p, inflight') > CopiesIn(p, inflight)

\* A create body the claims call valid: description given, title optional,
\* nothing else.
ValidBody(body) == body.description # Absent /\ body.other = Absent

\* A body that carries a description and nothing else.
DescriptionOnly(body) ==
    body.description # Absent /\ body.title = Absent /\ body.other = Absent

UniqueIds(t) == \A r1, r2 \in t : r1.id = r2.id => r1 = r2

----------------------------------------------------------------------------
(* Claims *)

\* C1: a create with a valid body succeeds, adds exactly one row and returns
\* it; the returned id is the id of no row already stored, the returned
\* description (and title, when given) are the request's, and every row
\* stored before is still there unchanged.
C1_CreateAddsOneRow ==
    [][Answered("create") /\ ValidBody(last'.body) =>
         /\ last'.status = "ok"
         /\ \E r \in last'.result :
              /\ last'.result = {r}
              /\ r.id \notin IdsOf(table)
              /\ r.description = last'.body.description
              /\ (last'.body.title # Absent => r.title = last'.body.title)
              /\ table' = table \cup {r}
              /\ r \notin table]_vars

C1_Witness ==
    /\ last.op = "create" /\ last.status = "ok"
    /\ last.body.title = Absent
    /\ last.result \subseteq table
    /\ Cardinality(table) >= 2

\* C2: the record a create returns is the row it stored; a stored row
\* changes or disappears only in an update or a delete of its own id; and
\* Get one returns exactly the stored row with the id asked for.  So a Get
\* one of a created id that was not updated or deleted since returns the
\* created record, whatever happened to other ids.
C2_CreateGetRoundTrip ==
    [][/\ (Answered("create") /\ last'.status = "ok" =>
              last'.result \subseteq table' /\ UniqueIds(table'))
       /\ \A r \in table :
            r \notin table' =>
              \/ Called /\ NewPending.id = r.id
              \/ Answered("remove") /\ last'.id = r.id
       /\ (Answered("findOne") =>
              last'.result = {r \in table : r.id = last'.id})]_vars

C2_Witness ==
    /\ last.op = "findOne" /\ last.result # {}
    /\ \E r \in last.result : r.title = NoTitle /\ r \in table
    /\ \E r \in table : r.id # last.id

\* C3: an update whose body carries only a description, on an id that has a
\* row, changes the description of that row and nothing else: same id, same
\* title, all other rows as they were, no row added or removed.
C3_UpdateDescriptionOnly ==
    [][Called /\ DescriptionOnly(NewPending.body) /\ NewPending.affected = 1 =>
         \E r \in table :
           /\ r.id = NewPending.id
           /\ table' = (table \ {r}) \cup
                {[id |-> r.id, title |-> r.title,
                  description |-> NewPending.body.description]}
           /\ Cardinality(table') = Cardinality(table)]_vars

C3_Witness ==
    \E p \in BagToSet(inflight) :
      /\ DescriptionOnly(p.body) /\ p.affected = 1
      /\ \E r \in table :
           r.id = p.id /\ r.title # NoTitle /\ r.description = p.body.description
      /\ \E r \in table : r.id # p.id

C5_ListReturnsAll ==
    [][/\ (Answered("findAll") =>
              last'.result = table /\ table' = table /\ UniqueIds(last'.result))
       /\ (Answered("create") /\ last'.status = "ok" =>
              Cardinality(table') = Cardinality(table) + 1)
       /\ (~Answered("create") /\ ~Answered("remove") =>
              Cardinality(table') = Cardinality(table))
       /\ (Answered("remove") =>
              Cardinality(table') = Cardinality(table) - last'.affected)]_vars

C5_Witness ==
    /\ last.op = "findAll"
    /\ Cardinality(last.result) = 2
    /\ Cardinality(IdsOf(last.result)) = 2

\* C6: a create whose body carries a property outside {title, description}
\* is rejected before the service is called, and the table is unchanged.
C6_StrictValidation ==
    [][Answered("create") /\ last'.body.other # Absent =>
         /\ last'.status = "rejected"
         /\ last'.calls = 0
         /\ last'.result = {}
         /\ table' = table]_vars

C6_Witness ==
    /\ last.op = "create" /\ last.status = "rejected"
    /\ last.body.other # Absent
    /\ table # {}

\* C7: no two rows have the same id, and the set of ids changes only by a
\* create adding one new id or a delete removing the id it names; an update
\* leaves the ids of all rows as they are.
C7_IdUniqueImmutable ==
    [][/\ UniqueIds(table')
       /\ (Called => IdsOf(table') = IdsOf(table)
                     /\ Cardinality(table') = Cardinality(table))
       /\ (IdsOf(table') # IdsOf(table) =>
              \/ /\ Answered("create")
                 /\ \E r \in last'.result :
                      r.id \notin IdsOf(table) /\ IdsOf(table') = IdsOf(table) \cup {r.id}
              \/ /\ Answered("remove")
                 /\ IdsOf(table') = IdsOf(table) \ {last'.id})]_vars

C7_Witness ==
    /\ \E p \in BagToSet(inflight) : p.affected = 1 /\ p.id \in IdsOf(table)
    /\ Cardinality(table) >= 2

C9_UpdateReturnsOwnWrite ==
    last.op = "update" /\ last.status = "ok" /\ last.affected = 1
      /\ last.body.description # Absent
    => \E r \in last.result : r.id = last.id /\ r.description = last.body.description

\* C10 as stated: every TaskService method makes exactly one repository call.
C10_OneCallEach ==
    last.op # "none" /\ last.status # "rejected" => last.calls = 1

\* C10 amended: findAll, findOne, create and remove make exactly one
\* repository call; findAll, findOne and create return its result unchanged
\* and remove returns nothing; update makes two calls, update then findOne,
\* and returns the result of the findOne.
C10_PassThrough ==
    [][/\ (Answered("findAll") => last'.calls = 1 /\ last'.result = table)
       /\ (Answered("findOne") =>
              last'.calls = 1 /\ last'.result = {r \in table : r.id = last'.id})
       /\ (Answered("create") /\ last'.status = "ok" =>
              last'.calls = 1 /\ last'.result = table' \ table)
       /\ (Answered("remove") => last'.calls = 1 /\ last'.result = {})
       /\ (Answered("update") /\ last'.status = "ok" =>
              last'.calls = 2 /\ last'.result = {r \in table : r.id = last'.id})]_vars

C10_Witness ==
    /\ last.op = "update" /\ last.status = "ok" /\ last.calls = 2
    /\ last.result # {}

====
